---- MODULE Spec2Model ----
(***************************************************************************)
(* Tensor layout descriptors of the inference engine (ie_layouts.cpp):     *)
(* BlockingDesc (the Layout Descriptor), TensorDesc (the Tensor            *)
(* Descriptor) and LayoutOffsetCounter (the Fixed-Layout Offset Counter).  *)
(*                                                                         *)
(* A SizeVector is a sequence of naturals.  C++ indexes from 0 and TLA+    *)
(* from 1: element i of the source is element i + 1 here.  The values held *)
(* in `order` and in DIM_POSITIONS are the source's 0-based indexes.       *)
(* size_t is 64 bits wide; every product formed within the bounds below is *)
(* far under 2^64, so no operation wraps.                                  *)
(***************************************************************************)
EXTENDS Integers, Sequences, FiniteSets, TLC

VARIABLES
    dims,           \* TensorDesc::dims
    layout,         \* TensorDesc::layout
    precision,      \* TensorDesc::precision
    blockingDesc,   \* TensorDesc::blockingDesc
    desc,           \* a BlockingDesc object held by the caller
    counter,        \* a LayoutOffsetCounter object held by the caller
    call            \* the last call made: its name, outcome, inputs, return value

vars == <<dims, layout, precision, blockingDesc, desc, counter, call>>

tensor == <<dims, layout, precision, blockingDesc>>

-----------------------------------------------------------------------------
(* Bounds of the inputs.                                                   *)

\* largest extent of a logical dimension or of a block
MaxDim == 2
\* the offsetPadding and offsetPaddingToData entries a caller supplies are 0 or MaxPad
MaxPad == 1
\* largest value an out-of-bounds read returns
MaxGarbage == 2
\* a caller's explicit strides are the canonical ones, or those times MaxScale
MaxScale == 2

\* the largest arity a symbolic layout requires (NCHW, NHWC, OIHW): callers
\* pass dims of up to that many elements
MaxArity == 4
\* the arity of the 2-D layouts (NC, CN, HW): callers pass explicit block
\* dims and orders of up to that many elements
MatrixArity == 2

-----------------------------------------------------------------------------
(* Helpers over SizeVector.                                                *)

SeqsOf(S, n) == [1..n -> S]

SeqsUpTo(S, n) == UNION {SeqsOf(S, k) : k \in 0..n}

RECURSIVE Product(_)
Product(v) == IF v = <<>> THEN 1 ELSE Head(v) * Product(Tail(v))

Zeros(n) == [i \in 1..n |-> 0]

Identity(n) == [i \in 1..n |-> i - 1]

Reverse(v) == [i \in 1..Len(v) |-> v[Len(v) + 1 - i]]

Range(v) == {v[i] : i \in 1..Len(v)}

Max(S) == CHOOSE x \in S : \A y \in S : y <= x

-----------------------------------------------------------------------------
(* enum Layout, as far as the source names its members.                    *)

Layouts == {"ANY", "NCHW", "NHWC", "OIHW", "C", "CHW", "HW", "NC", "CN", "BLOCKED"}

\* what an out-of-bounds read does: it traps, or it returns some value
OobReads == [trap : BOOLEAN, val : 0..MaxGarbage]

-----------------------------------------------------------------------------
(* BlockingDesc.                                                           *)

EmptyDesc ==
    [blockedDims |-> <<>>, order |-> <<>>, strides |-> <<>>,
     offsetPadding |-> 0, offsetPaddingToData |-> <<>>]

Done(d) == [status |-> "ok", desc |-> d]

Throw(msg) == [status |-> "error", desc |-> EmptyDesc]

Trap == [status |-> "crash", desc |-> EmptyDesc]

\* strides[size - i] = strides[size - (i - 1)] * blocked_dims[size - (i - 1)]
RECURSIVE StrideAt(_, _)
StrideAt(blocked_dims, k) ==
    IF k = Len(blocked_dims) THEN 1
    ELSE StrideAt(blocked_dims, k + 1) * blocked_dims[k + 1]

fillDesc(blocked_dims, order) ==
    IF Len(order) # Len(blocked_dims)
    THEN Throw("Size of dimensions and order vector don't match.")
    ELSE IF blocked_dims = <<>> \/ order = <<>>
    THEN Throw("Dimensions and order vector are empty.")
    ELSE Done([blockedDims |-> blocked_dims,
               order |-> order,
               strides |-> [k \in 1..Len(order) |-> StrideAt(blocked_dims, k)],
               offsetPadding |-> 0,
               offsetPaddingToData |-> Zeros(Len(order))])

\* BlockingDesc(const SizeVector& block_dims, const SizeVector& order)
BlockingDescOrder(block_dims, order) ==
    IF block_dims = <<>> \/ order = <<>>
    THEN Done([EmptyDesc EXCEPT !.order = order])
    ELSE fillDesc(block_dims, order)

\* BlockingDesc(blocked_dims, order, offset)
BlockingDescOffset(blocked_dims, order, offset) ==
    LET r == BlockingDescOrder(blocked_dims, order) IN
    IF r.status # "ok" THEN r
    ELSE Done([r.desc EXCEPT !.offsetPadding = offset])

\* BlockingDesc(blocked_dims, order, offset, dimOffsets)
BlockingDescDimOffsets(blocked_dims, order, offset, dimOffsets) ==
    LET r == BlockingDescOrder(blocked_dims, order) IN
    IF r.status # "ok" THEN r
    ELSE IF Len(blocked_dims) # Len(dimOffsets)
    THEN Throw("Offsets are not initialized for all dimensions.")
    ELSE Done([r.desc EXCEPT !.offsetPadding = offset,
                             !.offsetPaddingToData = dimOffsets])

\* BlockingDesc(blocked_dims, order, offset, dimOffsets, strides)
BlockingDescStrides(blocked_dims, order, offset, dimOffsets, strides) ==
    LET r == BlockingDescOrder(blocked_dims, order) IN
    IF r.status # "ok" THEN r
    ELSE IF Len(blocked_dims) # Len(strides)
    THEN Throw("Strides are not initialized for all dimensions.")
    ELSE IF Len(blocked_dims) # Len(dimOffsets)
    THEN Throw("Offsets are not initialized for all dimensions.")
    ELSE Done([r.desc EXCEPT !.offsetPadding = offset,
                             !.strides = strides,
                             !.offsetPaddingToData = dimOffsets])

\* checkDims(r_size, e_size) and the fillDesc call that ends the constructor
checkDims(r_size, e_size, l_dims, l_order) ==
    IF r_size # e_size THEN Throw("Dims and format are inconsistent.")
    ELSE fillDesc(l_dims, l_order)

\* BlockingDesc(const SizeVector& dims, Layout layout).  In the CN case the
\* source reads dims[2] of a vector of two elements; oob is what that read does.
BlockingDescLayout(d, l, oob) ==
    IF d = <<>> THEN Done(EmptyDesc)
    ELSE CASE l = "ANY" -> Done(EmptyDesc)
           [] l = "C" -> checkDims(Len(d), 1, d, <<0>>)
           [] l \in {"OIHW", "NCHW"} -> checkDims(Len(d), 4, d, <<0, 1, 2, 3>>)
           [] l = "NHWC" ->
                IF Len(d) # 4 THEN Throw("Dims and format are inconsistent.")
                ELSE fillDesc(<<d[1], d[3], d[4], d[2]>>, <<0, 2, 3, 1>>)
           [] l = "CHW" -> checkDims(Len(d), 3, d, <<0, 1, 2>>)
           [] l = "CN" ->
                IF Len(d) # 2 THEN Throw("Dims and format are inconsistent.")
                ELSE IF oob.trap THEN Trap
                ELSE fillDesc(<<d[2], oob.val>>, <<1, 0>>)
           [] l \in {"NC", "HW"} -> checkDims(Len(d), 2, d, <<0, 1>>)
           [] l = "BLOCKED" -> fillDesc(d, Identity(Len(d)))

\* BlockingDesc(): BlockingDesc({}, Layout::ANY)
BlockingDescDefault == BlockingDescLayout(<<>>, "ANY", [trap |-> FALSE, val |-> 0]).desc

-----------------------------------------------------------------------------
(* TensorDesc.                                                             *)

Tensor(p, d, l, b) == [dims |-> d, layout |-> l, precision |-> p, blockingDesc |-> b]

Made(t) == [status |-> "ok", t |-> t]

Failed(status, t) == [status |-> status, t |-> t]

\* TensorDesc(): the precision member is default-constructed
TensorDescDefault == Tensor("UNSPECIFIED", <<>>, "ANY", BlockingDescDefault)

\* TensorDesc(const Precision&, SizeVector dims, Layout layout)
TensorDescLayout(p, d, l, oob) ==
    LET r == BlockingDescLayout(d, l, oob) IN
    IF r.status # "ok" THEN Failed(r.status, TensorDescDefault)
    ELSE Made(Tensor(p, d, l, r.desc))

\* TensorDesc(const Precision&, Layout layout)
TensorDescNoDims(p, l) == Tensor(p, <<>>, l, BlockingDescDefault)

\* the layout the explicit-descriptor constructor infers
InferLayout(d, b) ==
    LET o == b.order IN
    IF d # b.blockedDims THEN "BLOCKED"
    ELSE CASE Len(d) = 1 -> "C"
           [] Len(d) = 2 -> IF o[1] = 0 /\ o[2] = 1 THEN "NC" ELSE "CN"
           [] Len(d) = 3 ->
                IF o[1] = 0 /\ o[2] = 1 /\ o[3] = 2 THEN "CHW" ELSE "BLOCKED"
           [] Len(d) = 4 ->
                IF o[1] = 0 /\ o[2] = 1 /\ o[3] = 2 /\ o[4] = 3 THEN "NCHW"
                ELSE IF o[1] = 0 /\ o[2] = 2 /\ o[3] = 3 /\ o[4] = 1 THEN "NHWC"
                ELSE "BLOCKED"
           [] OTHER -> "BLOCKED"

\* TensorDesc(const Precision&, SizeVector dims, const BlockingDesc& blockDesc).
\* With an empty order, max_element returns end() and the source dereferences
\* it; oob is what that read does.
TensorDescDesc(p, d, blockDesc, oob) ==
    IF blockDesc.order = <<>> /\ oob.trap THEN Failed("crash", TensorDescDefault)
    ELSE LET top == IF blockDesc.order = <<>> THEN oob.val
                    ELSE Max(Range(blockDesc.order)) IN
         IF Len(d) # top + 1
         THEN Failed("error", TensorDescDefault)
         ELSE Made(Tensor(p, d, InferLayout(d, blockDesc), blockDesc))

\* setDims as it would be without the branch for BLOCKED: every layout
\* rebuilds the descriptor from the new dims
setDimsRebuildsBlocked(t, d, oob) ==
    LET t1 == [t EXCEPT !.dims = d]
        r == BlockingDescLayout(d, t.layout, oob)
    IN  IF r.status # "ok" THEN Failed(r.status, t1)
        ELSE Made([t1 EXCEPT !.blockingDesc = r.desc])

\* setDims: dims is assigned before the descriptor is rebuilt
setDims(t, d, oob) ==
    LET t1 == [t EXCEPT !.dims = d] IN
    IF t.layout = "BLOCKED"
    THEN LET newDims0 == t.blockingDesc.blockedDims
             newDims == IF newDims0 = <<>> THEN d ELSE newDims0
             newOrder0 == t.blockingDesc.order
             newOrder == IF newOrder0 = <<>> THEN Identity(Len(newDims)) ELSE newOrder0
             r == BlockingDescOrder(newDims, newOrder)
         IN  IF r.status # "ok" THEN Failed(r.status, t1)
             ELSE Made([t1 EXCEPT !.blockingDesc = r.desc])
    ELSE LET r == BlockingDescLayout(d, t.layout, oob) IN
         IF r.status # "ok" THEN Failed(r.status, t1)
         ELSE Made([t1 EXCEPT !.blockingDesc = r.desc])

\* reshape as it would be if the padding loop looked at the first axis only
reshapeChecksFirstAxis(t, d, l, oob) ==
    IF /\ t.blockingDesc.offsetPaddingToData # <<>>
       /\ t.blockingDesc.offsetPaddingToData[1] # 0
    THEN Failed("error", t)
    ELSE IF l # "ANY"
    THEN LET r == BlockingDescLayout(d, l, oob) IN
         IF r.status # "ok" THEN Failed(r.status, t)
         ELSE Made([t EXCEPT !.blockingDesc = r.desc, !.layout = l, !.dims = d])
    ELSE LET r == BlockingDescLayout(d, t.layout, oob) IN
         IF r.status # "ok" THEN Failed(r.status, t)
         ELSE Made([t EXCEPT !.blockingDesc = r.desc, !.dims = d])

\* reshape(const SizeVector& dims, Layout layout)
reshape(t, d, l, oob) ==
    IF \E i \in 1..Len(t.blockingDesc.offsetPaddingToData) :
           t.blockingDesc.offsetPaddingToData[i] # 0
    THEN Failed("error", t)
    ELSE IF l # "ANY"
    THEN LET r == BlockingDescLayout(d, l, oob) IN
         IF r.status # "ok" THEN Failed(r.status, t)
         ELSE Made([t EXCEPT !.blockingDesc = r.desc, !.layout = l, !.dims = d])
    ELSE LET r == BlockingDescLayout(d, t.layout, oob) IN
         IF r.status # "ok" THEN Failed(r.status, t)
         ELSE Made([t EXCEPT !.blockingDesc = r.desc, !.dims = d])

\* reshape(const SizeVector& dims, const BlockingDesc& blockDesc)
reshapeDesc(t, d, blockDesc) ==
    [t EXCEPT !.blockingDesc = blockDesc, !.dims = d, !.layout = "BLOCKED"]

-----------------------------------------------------------------------------
(* Offsets.                                                                *)

Returned(n) == [status |-> "ok", value |-> n]

NoValue(status) == [status |-> status, value |-> 0]

\* what undefined behaviour inside a computation results in
Undefined(oob) == IF oob.trap THEN NoValue("crash") ELSE Returned(oob.val)

\* the first loop of offset(v), from the last physical axis down to axis k:
\* the remainders (blockedShift) and what is left of the coordinate (off_v)
RECURSIVE BlockedShift(_, _, _, _)
BlockedShift(off_v, order, blockedDims, k) ==
    IF k > Len(order) THEN [off_v |-> off_v, shift |-> Zeros(Len(order))]
    ELSE LET rest == BlockedShift(off_v, order, blockedDims, k + 1)
             at == order[k] + 1
         IN  [off_v |-> [rest.off_v EXCEPT ![at] = rest.off_v[at] \div blockedDims[k]],
              shift |-> [rest.shift EXCEPT ![k] = rest.off_v[at] % blockedDims[k]]]

\* the second loop of offset(v)
RECURSIVE SumStrides(_, _, _, _)
SumStrides(shift, pad, strides, k) ==
    IF k > Len(shift) THEN 0
    ELSE (shift[k] + pad[k]) * strides[k] + SumStrides(shift, pad, strides, k + 1)

\* size_t TensorDesc::offset(const SizeVector& v) const
offset(t, v, oob) ==
    LET b == t.blockingDesc
        n == Len(b.order)
    IN  IF t.layout = "ANY" THEN NoValue("error")
        ELSE IF Len(b.blockedDims) # n \/ Len(b.strides) # n THEN NoValue("error")
        ELSE IF \E k \in 1..n : b.order[k] >= Len(v) \/ b.blockedDims[k] = 0
        THEN Undefined(oob)
        ELSE Returned(b.offsetPadding
                      + SumStrides(BlockedShift(v, b.order, b.blockedDims, 1).shift,
                                   b.offsetPaddingToData, b.strides, 1))

\* the coordinate offset(size_t l) decomposes l into
RECURSIVE Position(_, _, _)
Position(d, l, k) ==
    IF k = 0 THEN <<>>
    ELSE Append(Position(d, l \div d[k], k - 1), l % d[k])

\* size_t TensorDesc::offset(size_t l) const
offsetIndex(t, l, oob) ==
    IF \E k \in 1..Len(t.dims) : t.dims[k] = 0 THEN Undefined(oob)
    ELSE offset(t, Position(t.dims, l, Len(t.dims)), oob)

-----------------------------------------------------------------------------
(* LayoutOffsetCounter.                                                    *)

\* enum eDIMS_AXIS: indexes of the dimensions in reverse NCHW order (w, h, c, n)
I_W == 0
I_H == 1
I_C == 2
I_N == 3

DIM_POSITIONS(l) ==
    CASE l = "NCHW" -> <<I_W, I_H, I_C, I_N>>
      [] l = "NHWC" -> <<I_C, I_W, I_H, I_N>>

NoCounter == [_layout |-> "ANY", _dims |-> <<>>, _dims_count |-> 0, _muls |-> <<>>]

\* the constructor's loop as it would be with its two statements swapped:
\* mul *= dims[index]; _muls[index] = mul
RECURSIVE MulsAfterProduct(_, _, _, _, _)
MulsAfterProduct(l, d, i, mul, muls) ==
    IF i > Len(d) THEN muls
    ELSE LET index == DIM_POSITIONS(l)[i] + 1 IN
         MulsAfterProduct(l, d, i + 1, mul * d[index], [muls EXCEPT ![index] = mul * d[index]])

\* the constructor's loop from step i on: _muls[index] = mul; mul *= dims[index]
RECURSIVE Muls(_, _, _, _, _)
Muls(l, d, i, mul, muls) ==
    IF i > Len(d) THEN muls
    ELSE LET index == DIM_POSITIONS(l)[i] + 1 IN
         Muls(l, d, i + 1, mul * d[index], [muls EXCEPT ![index] = mul])

\* LayoutOffsetCounter(Layout layout, SizeVector dims), for the dims of four
\* elements the static table serves
LayoutOffsetCounter(l, d) ==
    [_layout |-> l, _dims |-> d, _dims_count |-> Len(d),
     _muls |-> Muls(l, d, 1, 1, [i \in 1..Len(d) |-> -1])]

\* size_t LayoutOffsetCounter::Offset(SizeVector pos)
RECURSIVE Offset(_, _, _)
Offset(c, pos, i) ==
    IF i > c._dims_count THEN 0
    ELSE pos[i] * c._muls[i] + Offset(c, pos, i + 1)

-----------------------------------------------------------------------------
(* The inputs callers pass.                                                *)

Precisions == {"FP32"}

DimsIn == SeqsUpTo(1..MaxDim, MaxArity)

BlkDimsIn == SeqsUpTo(1..MaxDim, MatrixArity)

OrdersIn == SeqsUpTo(0..(MatrixArity - 1), MatrixArity)

\* per-axis paddings for n axes: none, one axis padded, or a vector too long
DimOffsetsIn(n) ==
    {Zeros(n), Zeros(n + 1)}
        \cup {[i \in 1..n |-> IF i = j THEN MaxPad ELSE 0] : j \in 1..n}

\* explicit strides for blocked_dims: scaled canonical ones, or a vector too long
StridesIn(blocked_dims) ==
    {[k \in 1..Len(blocked_dims) |-> s * StrideAt(blocked_dims, k)] : s \in {1, MaxScale}}
        \cup {Zeros(Len(blocked_dims) + 1)}

NoOob == [trap |-> FALSE, val |-> 0]

\* the reads of BlockingDesc(dims, layout) that are out of bounds
OobOfLayout(d, l) == IF l = "CN" /\ Len(d) = 2 THEN OobReads ELSE {NoOob}

\* the reads of TensorDesc(precision, dims, blockDesc) that are out of bounds
OobOfDesc(b) == IF b.order = <<>> THEN OobReads ELSE {NoOob}

\* the coordinates within the bounds of d
Coordinates(d) == {v \in SeqsOf(0..(MaxDim - 1), Len(d)) : \A i \in 1..Len(d) : v[i] < d[i]}

Called(op, status, in, ret) == [op |-> op, status |-> status, in |-> in, ret |-> ret]

InitObjects ==
    /\ dims = TensorDescDefault.dims
    /\ layout = TensorDescDefault.layout
    /\ precision = TensorDescDefault.precision
    /\ blockingDesc = TensorDescDefault.blockingDesc
    /\ desc = BlockingDescDefault
    /\ counter = NoCounter
    /\ call = Called("start", "ok", <<>>, 0)

Self == Tensor(precision, dims, layout, blockingDesc)

\* the TensorDesc object becomes t
Becomes(t) ==
    /\ dims' = t.dims
    /\ layout' = t.layout
    /\ precision' = t.precision
    /\ blockingDesc' = t.blockingDesc

\* a constructor that throws builds no object: the variables keep their values
Constructed(r) == IF r.status = "ok" THEN Becomes(r.t) ELSE UNCHANGED tensor

Built(r) == desc' = IF r.status = "ok" THEN r.desc ELSE desc

-----------------------------------------------------------------------------
(* Constructing Layout Descriptors: one call of a BlockingDesc constructor *)
(* on the inputs a caller chooses, then a TensorDesc built from the result.*)

DescOps ==
    {"BlockingDesc()", "BlockingDesc(block_dims,order)", "BlockingDesc(blocked_dims,order,offset)",
     "BlockingDesc(blocked_dims,order,offset,dimOffsets)",
     "BlockingDesc(blocked_dims,order,offset,dimOffsets,strides)",
     "BlockingDesc(dims,layout)"}

NewDescDefault ==
    /\ call.op = "start"
    /\ desc' = BlockingDescDefault
    /\ call' = Called("BlockingDesc()", "ok", <<>>, 0)
    /\ UNCHANGED <<tensor, counter>>

NewDescOrder ==
    /\ call.op = "start"
    /\ \E b \in BlkDimsIn, o \in OrdersIn :
         LET r == BlockingDescOrder(b, o) IN
         /\ Built(r)
         /\ call' = Called("BlockingDesc(block_dims,order)", r.status,
                           [block_dims |-> b, order |-> o], 0)
    /\ UNCHANGED <<tensor, counter>>

NewDescOffset ==
    /\ call.op = "start"
    /\ \E b \in BlkDimsIn, o \in OrdersIn, off \in {0, MaxPad} :
         LET r == BlockingDescOffset(b, o, off) IN
         /\ Built(r)
         /\ call' = Called("BlockingDesc(blocked_dims,order,offset)", r.status,
                           [block_dims |-> b, order |-> o, offset |-> off], 0)
    /\ UNCHANGED <<tensor, counter>>

NewDescDimOffsets ==
    /\ call.op = "start"
    /\ \E b \in BlkDimsIn, o \in OrdersIn, off \in {0, MaxPad} :
       \E pad \in DimOffsetsIn(Len(b)) :
         LET r == BlockingDescDimOffsets(b, o, off, pad) IN
         /\ Built(r)
         /\ call' = Called("BlockingDesc(blocked_dims,order,offset,dimOffsets)", r.status,
                           [block_dims |-> b, order |-> o, offset |-> off,
                            dimOffsets |-> pad], 0)
    /\ UNCHANGED <<tensor, counter>>

NewDescStrides ==
    /\ call.op = "start"
    /\ \E b \in BlkDimsIn, o \in OrdersIn, off \in {0, MaxPad} :
       \E pad \in DimOffsetsIn(Len(b)), st \in StridesIn(b) :
         LET r == BlockingDescStrides(b, o, off, pad, st) IN
         /\ Built(r)
         /\ call' = Called("BlockingDesc(blocked_dims,order,offset,dimOffsets,strides)",
                           r.status,
                           [block_dims |-> b, order |-> o, offset |-> off,
                            dimOffsets |-> pad, strides |-> st], 0)
    /\ UNCHANGED <<tensor, counter>>

NewDescLayout ==
    /\ call.op = "start"
    /\ \E d \in DimsIn, l \in Layouts :
       \E oob \in OobOfLayout(d, l) :
         LET r == BlockingDescLayout(d, l, oob) IN
         /\ Built(r)
         /\ call' = Called("BlockingDesc(dims,layout)", r.status,
                           [dims |-> d, layout |-> l], 0)
    /\ UNCHANGED <<tensor, counter>>

\* TensorDesc(precision, dims, desc) on the descriptor just built
NewTensorDesc ==
    /\ call.op \in DescOps
    /\ call.status = "ok"
    /\ \E p \in Precisions, d \in DimsIn :
       \E oob \in OobOfDesc(desc) :
         LET r == TensorDescDesc(p, d, desc, oob) IN
         /\ Constructed(r)
         /\ call' = Called("TensorDesc(precision,dims,blockDesc)", r.status,
                           [dims |-> d], 0)
    /\ UNCHANGED <<desc, counter>>

NextDesc ==
    \/ NewDescDefault
    \/ NewDescOrder
    \/ NewDescOffset
    \/ NewDescDimOffsets
    \/ NewDescStrides
    \/ NewDescLayout
    \/ NewTensorDesc

SpecDesc == InitObjects /\ [][NextDesc]_vars

-----------------------------------------------------------------------------
(* Claims about the construction of Layout Descriptors.                    *)

\* the canonical table of the symbolic layouts: arity, order, block dims
TableLayouts == {"C", "NC", "CN", "CHW", "NCHW", "NHWC"}

TableArity(l) ==
    CASE l = "C" -> 1
      [] l \in {"NC", "CN"} -> 2
      [] l = "CHW" -> 3
      [] l \in {"NCHW", "NHWC"} -> 4

TableOrder(d, l) ==
    CASE l = "CN" -> <<1, 0>>
      [] l = "NHWC" -> <<0, 2, 3, 1>>
      [] OTHER -> Identity(Len(d))

TableBlockDims(d, l) ==
    CASE l = "CN" -> <<d[2], d[1]>>
      [] l = "NHWC" -> <<d[1], d[3], d[4], d[2]>>
      [] OTHER -> d

\* strides are the right-to-left cumulative product of blockDims, the last one 1
CumulativeStrides(b) ==
    /\ Len(b.strides) = Len(b.blockedDims)
    /\ \A k \in 1..Len(b.strides) :
         b.strides[k] = IF k = Len(b.strides) THEN 1
                        ELSE b.strides[k + 1] * b.blockedDims[k + 1]

NoPadding(b) ==
    /\ b.offsetPadding = 0
    /\ Len(b.offsetPaddingToData) = Len(b.blockedDims)
    /\ \A k \in 1..Len(b.offsetPaddingToData) : b.offsetPaddingToData[k] = 0

\* C5: BlockingDesc(dims, layout) follows the canonical table for every tag
\* and every dims of the tag's arity (CN: order [1,0], blockDims [dims[1],
\* dims[0]]; NHWC: order [0,2,3,1], blockDims [dims[0], dims[2], dims[3],
\* dims[1]]), with cumulative strides and no padding; a dims length that
\* differs from the tag's arity is an error.
C5_CanonicalTable ==
    call.op = "BlockingDesc(dims,layout)" =>
        LET d == call.in.dims
            l == call.in.layout
        IN  /\ (l \in TableLayouts /\ Len(d) = TableArity(l)) \/ (l = "BLOCKED" /\ d # <<>>) =>
                /\ call.status = "ok"
                /\ desc.order = TableOrder(d, l)
                /\ desc.blockedDims = TableBlockDims(d, l)
                /\ CumulativeStrides(desc)
                /\ NoPadding(desc)
            /\ l \in TableLayouts /\ Len(d) # TableArity(l) => call.status = "error"

\* C6: BlockingDesc(blockDims, order) is rejected when exactly one of the two
\* is empty, yields the undefined descriptor when both are empty, is rejected
\* when both are non-empty with different lengths; so every descriptor that
\* was constructed has blockDims, order, strides, offsetPaddingToData of one length.
C6_ExplicitConstruction ==
    /\ call.op = "BlockingDesc(block_dims,order)" =>
        LET b == call.in.block_dims
            o == call.in.order
        IN  /\ (b = <<>>) # (o = <<>>) => call.status = "error"
            /\ b = <<>> /\ o = <<>> => call.status = "ok" /\ desc = EmptyDesc
            /\ b # <<>> /\ o # <<>> /\ Len(b) # Len(o) => call.status = "error"
    /\ call.op \in DescOps /\ call.status = "ok" =>
            /\ Len(desc.blockedDims) = Len(desc.order)
            /\ Len(desc.strides) = Len(desc.order)
            /\ Len(desc.offsetPaddingToData) = Len(desc.order)

\* C8: TensorDesc(precision, dims, blockDesc) fails whenever dims.size()
\* differs from max(order) + 1, the undefined descriptor (empty order)
\* included, and succeeds only when dims.size() = max(order) + 1.
C8_DimsMatchOrder ==
    call.op = "TensorDesc(precision,dims,blockDesc)" =>
        IF desc.order # <<>> /\ Len(call.in.dims) = Max(Range(desc.order)) + 1
        THEN TRUE
        ELSE call.status = "error"

-----------------------------------------------------------------------------
(* A TensorDesc built from dims and a symbolic layout, and what a caller   *)
(* then asks of it: the same descriptor rebuilt through the explicit       *)
(* constructor, the offset of a linear index, and the offset of a          *)
(* coordinate beside the LayoutOffsetCounter's.                            *)

\* the reads and divisions of offset(v) that are undefined
OobOfOffset(t, v) ==
    IF /\ t.layout # "ANY"
       /\ Len(t.blockingDesc.blockedDims) = Len(t.blockingDesc.order)
       /\ \E k \in 1..Len(t.blockingDesc.order) :
            \/ t.blockingDesc.order[k] >= Len(v)
            \/ t.blockingDesc.blockedDims[k] = 0
    THEN OobReads ELSE {NoOob}

NewTensorLayout ==
    /\ call.op = "start"
    /\ \E p \in Precisions, d \in DimsIn, l \in Layouts :
       \E oob \in OobOfLayout(d, l) :
         LET r == TensorDescLayout(p, d, l, oob) IN
         /\ Constructed(r)
         /\ call' = Called("TensorDesc(precision,dims,layout)", r.status,
                           [dims |-> d, layout |-> l], 0)
    /\ UNCHANGED <<desc, counter>>

\* TensorDesc(getPrecision(), getDims(), getBlockingDesc())
Rebuild ==
    /\ call.op = "TensorDesc(precision,dims,layout)"
    /\ call.status = "ok"
    /\ \E oob \in OobOfDesc(blockingDesc) :
         LET r == TensorDescDesc(precision, dims, blockingDesc, oob) IN
         /\ Constructed(r)
         /\ call' = Called("TensorDesc(precision,getDims(),getBlockingDesc())",
                           r.status, call.in, 0)
    /\ UNCHANGED <<desc, counter>>

OffsetIndexCall ==
    /\ call.op = "TensorDesc(precision,dims,layout)"
    /\ call.status = "ok"
    /\ \E l \in 0..(Product(dims) - 1) :
       \E oob \in OobOfOffset(Self, Position(dims, l, Len(dims))) :
         LET r == offsetIndex(Self, l, oob) IN
         call' = Called("offset(l)", r.status, [l |-> l], r.value)
    /\ UNCHANGED <<tensor, desc, counter>>

\* LayoutOffsetCounter(layout, d) for the tensor's layout, d being the
\* tensor's dims as they are or in reverse (w, h, c, n) order
NewCounter ==
    /\ call.op = "TensorDesc(precision,dims,layout)"
    /\ call.status = "ok"
    /\ layout \in {"NCHW", "NHWC"}
    /\ Len(dims) = 4
    /\ \E d \in {dims, Reverse(dims)} :
         /\ counter' = LayoutOffsetCounter(layout, d)
         /\ call' = Called("LayoutOffsetCounter(layout,dims)", "ok", [dims |-> d], 0)
    /\ UNCHANGED <<tensor, desc>>

OffsetCall ==
    /\ call.op = "LayoutOffsetCounter(layout,dims)"
    /\ \E v \in Coordinates(dims) :
       \E oob \in OobOfOffset(Self, v) :
         LET r == offset(Self, v, oob) IN
         call' = Called("offset(v)", r.status, [v |-> v], r.value)
    /\ UNCHANGED <<tensor, desc, counter>>

\* Offset(pos), pos being the coordinate just asked of the tensor, as it is
\* or in reverse order
CounterOffsetCall ==
    /\ call.op = "offset(v)"
    /\ call.status = "ok"
    /\ \E pos \in {call.in.v, Reverse(call.in.v)} :
         call' = Called("Offset(pos)", "ok",
                        [v |-> call.in.v, offset |-> call.ret, pos |-> pos],
                        Offset(counter, pos, 1))
    /\ UNCHANGED <<tensor, desc, counter>>

NextTensor ==
    \/ NewTensorLayout
    \/ Rebuild
    \/ OffsetIndexCall
    \/ NewCounter
    \/ OffsetCall
    \/ CounterOffsetCall

SpecTensor == InitObjects /\ [][NextTensor]_vars

-----------------------------------------------------------------------------
(* Claims about a TensorDesc built from a symbolic layout.                 *)

\* C1: for every supported symbolic layout L and dims D of L's arity, the
\* descriptor rebuilt from (D, the Layout Descriptor of TensorDesc(D, L))
\* through the explicit constructor has the inferred layout L.
C1_LayoutRoundTrip ==
    /\ call.op = "TensorDesc(precision,getDims(),getBlockingDesc())"
    /\ \/ call.in.layout \in TableLayouts /\ Len(call.in.dims) = TableArity(call.in.layout)
       \/ call.in.layout = "BLOCKED"
    => /\ call.status = "ok"
       /\ layout = call.in.layout

\* C2 as stated: TensorDesc(D, NCHW).offset(C) = LayoutOffsetCounter(NCHW,
\* D).Offset(C), both given the same D and the same C in the same order.
C2_SameOrderOffsets ==
    /\ call.op = "Offset(pos)"
    /\ layout = "NCHW"
    /\ counter._dims = dims
    /\ call.in.pos = call.in.v
    => call.ret = call.in.offset

\* C2 amended: TensorDesc(D, NCHW).offset(C) = LayoutOffsetCounter(NCHW,
\* reverse(D)).Offset(reverse(C)): the counter takes dims and position in
\* reverse NCHW order (w, h, c, n).
C2_ReverseOrderOffsets ==
    /\ call.op = "Offset(pos)"
    /\ layout = "NCHW"
    /\ counter._dims = Reverse(dims)
    /\ call.in.pos = Reverse(call.in.v)
    => call.ret = call.in.offset

\* a 4-D NCHW tensor with distinct extents, asked at a coordinate whose
\* reverse differs from it, the counter given both in reverse
C2_Witness ==
    /\ call.op = "Offset(pos)"
    /\ layout = "NCHW"
    /\ dims # Reverse(dims)
    /\ counter._dims = Reverse(dims)
    /\ call.in.v # Reverse(call.in.v)
    /\ call.in.pos = Reverse(call.in.v)
    /\ call.ret = call.in.offset
    /\ call.ret > 0

\* C3: for a TensorDesc built from dims D (entries >= 1) and a concrete
\* layout of matching arity, linearIndex -> offset(linearIndex) maps
\* [0, product(D)) one-to-one onto [0, product(D)).
C3_OffsetBijection ==
    /\ call.op = "TensorDesc(precision,dims,layout)"
    /\ call.status = "ok"
    /\ layout \in TableLayouts
    /\ Len(dims) = TableArity(layout)
    => LET n == Product(dims) IN
       /\ \A l \in 0..(n - 1) : \A oob \in OobReads :
            /\ offsetIndex(Self, l, oob).status = "ok"
            /\ offsetIndex(Self, l, oob).value \in 0..(n - 1)
       /\ \A l1, l2 \in 0..(n - 1) : \A oob \in OobReads :
            offsetIndex(Self, l1, oob).value = offsetIndex(Self, l2, oob).value => l1 = l2

-----------------------------------------------------------------------------
(* The life of a TensorDesc: a caller builds it with one of the four       *)
(* constructors (the explicit one from a Layout Descriptor built before),  *)
(* then calls setDims or one of the reshapes on it.  setDims and reshape   *)
(* read layout, precision and blockingDesc of the object but never its     *)
(* dims, which they overwrite.  An object whose construction went through  *)
(* undefined behaviour (the explicit constructor given an empty order) is  *)
(* not followed further.                                                   *)

TensorOps ==
    {"TensorDesc()", "TensorDesc(precision,layout)", "TensorDesc(precision,dims,layout)",
     "TensorDesc(precision,dims,blockDesc)"}

\* a TensorDesc was constructed, and by defined behaviour
Alive ==
    /\ call.op \in TensorOps
    /\ call.status = "ok"
    /\ call.op = "TensorDesc(precision,dims,blockDesc)" => desc.order # <<>>

NewTensorDefault ==
    /\ call.op = "start"
    /\ Becomes(TensorDescDefault)
    /\ call' = Called("TensorDesc()", "ok", <<>>, 0)
    /\ UNCHANGED <<desc, counter>>

NewTensorNoDims ==
    /\ call.op = "start"
    /\ \E p \in Precisions, l \in Layouts :
         /\ Becomes(TensorDescNoDims(p, l))
         /\ call' = Called("TensorDesc(precision,layout)", "ok", [layout |-> l], 0)
    /\ UNCHANGED <<desc, counter>>

SetDims ==
    /\ Alive
    /\ \E d \in DimsIn :
       \E oob \in OobOfLayout(d, layout) :
         LET r == setDims(Self, d, oob) IN
         /\ Becomes(r.t)
         /\ call' = Called("setDims(dims)", r.status, <<>>, 0)
    /\ UNCHANGED <<desc, counter>>

Reshape ==
    /\ Alive
    /\ \E d \in DimsIn, l \in Layouts :
       \E oob \in OobOfLayout(d, IF l = "ANY" THEN layout ELSE l) :
         LET r == reshape(Self, d, l, oob) IN
         /\ Becomes(r.t)
         /\ call' = Called("reshape(dims,layout)", r.status, [layout |-> l], 0)
    /\ UNCHANGED <<desc, counter>>

ReshapeDesc ==
    /\ Alive
    /\ \E d \in DimsIn :
         /\ Becomes(reshapeDesc(Self, d, desc))
         /\ call' = Called("reshape(dims,blockDesc)", "ok", <<>>, 0)
    /\ UNCHANGED <<desc, counter>>

Next ==
    \/ NewTensorDefault
    \/ NewTensorNoDims
    \/ NewTensorLayout
    \/ NewDescDefault
    \/ NewDescOrder
    \/ NewDescOffset
    \/ NewDescDimOffsets
    \/ NewDescStrides
    \/ NewTensorDesc
    \/ SetDims
    \/ Reshape
    \/ ReshapeDesc

Spec == InitObjects /\ [][Next]_vars

-----------------------------------------------------------------------------
(* Claims about the life of a TensorDesc.                                  *)

Concrete(l) == l \notin {"BLOCKED", "ANY"}

Padded(b) == \E i \in 1..Len(b.offsetPaddingToData) : b.offsetPaddingToData[i] # 0

\* C4: whenever layout is a concrete tag (neither BLOCKED nor ANY),
\* blockingDesc is exactly the descriptor BlockingDesc(dims, layout) produces
\* for the current dims.
C4_ConcreteIsCanonical ==
    Concrete(layout) =>
        \E oob \in OobOfLayout(dims, layout) :
            /\ BlockingDescLayout(dims, layout, oob).status = "ok"
            /\ BlockingDescLayout(dims, layout, oob).desc = blockingDesc

\* C7: reshape(newDims, newLayout) on a TensorDesc with a non-zero
\* offsetPaddingToData entry fails, whatever newDims and newLayout are, and
\* leaves dims, layout and blockingDesc as they were.
C7_PaddedReshapeFails ==
    [][Padded(blockingDesc) /\ call'.op = "reshape(dims,layout)" =>
          /\ call'.status = "error"
          /\ dims' = dims
          /\ layout' = layout
          /\ blockingDesc' = blockingDesc]_vars

\* a reshape to layout ANY has failed on a descriptor padded on its last
\* axis only and with no scalar offset
C7_Witness ==
    /\ call.op = "reshape(dims,layout)"
    /\ call.status = "error"
    /\ call.in.layout = "ANY"
    /\ Len(blockingDesc.offsetPaddingToData) = 2
    /\ blockingDesc.offsetPaddingToData[1] = 0
    /\ blockingDesc.offsetPaddingToData[2] # 0
    /\ blockingDesc.offsetPadding = 0

\* C9: setDims on a BLOCKED TensorDesc with non-empty blockDims and order
\* keeps blockDims and order whatever the new dims are, resets strides to
\* the cumulative product and the paddings to 0, and leaves layout and
\* precision alone; blockDims and order become the new dims and the identity
\* order only when one of them was empty.
C9_BlockedSetDimsKeepsBlocks ==
    [][layout = "BLOCKED" /\ call'.op = "setDims(dims)" =>
          /\ blockingDesc.blockedDims # <<>> /\ blockingDesc.order # <<>> =>
                /\ call'.status = "ok"
                /\ blockingDesc'.blockedDims = blockingDesc.blockedDims
                /\ blockingDesc'.order = blockingDesc.order
                /\ CumulativeStrides(blockingDesc')
                /\ NoPadding(blockingDesc')
                /\ layout' = layout
                /\ precision' = precision
          /\ /\ blockingDesc'.blockedDims = dims'
             /\ blockingDesc'.order = Identity(Len(dims'))
             /\ blockingDesc'.blockedDims # blockingDesc.blockedDims
                    \/ blockingDesc'.order # blockingDesc.order
             => blockingDesc.blockedDims = <<>> \/ blockingDesc.order = <<>>]_vars

\* setDims has succeeded on a BLOCKED descriptor whose blocks are not the new
\* dims and whose order is not the identity
C9_Witness ==
    /\ call.op = "setDims(dims)"
    /\ call.status = "ok"
    /\ layout = "BLOCKED"
    /\ blockingDesc.blockedDims # <<>>
    /\ blockingDesc.blockedDims # dims
    /\ blockingDesc.order # Identity(Len(blockingDesc.order))
    /\ precision = "FP32"

\* C10: a setDims that fails leaves dims, layout and blockingDesc exactly as
\* they were before the call.
C10_FailedSetDimsKeepsState ==
    [][call'.op = "setDims(dims)" /\ call'.status # "ok" =>
          /\ dims' = dims
          /\ layout' = layout
          /\ blockingDesc' = blockingDesc]_vars

====
